---- MODULE Spec2Model ----
(***************************************************************************)
(* Model of src/Mockupcoreapp.py: the batch render worker (Worker.run),    *)
(* the output-path disambiguation (get_unique_filepath), the thumbnail     *)
(* extractor (extract_psd_thumbnail) and the mockup library of             *)
(* MockupLibrary: configuration (_load_cloud_sources), cloud cache         *)
(* (_get_cloud_mockups, _download_file, clear_cache) and catalog           *)
(* (get_all_mockups).  Strings are sequences of tokens, files sequences    *)
(* of bytes.                                                               *)
(*                                                                         *)
(* The specifications share the variables:                                 *)
(*   Spec        the render worker thread, from construction to return;    *)
(*   SpecCache   the library cache as the application drives it, from the  *)
(*               single GUI thread;                                        *)
(*   SpecConc    two threads inside _get_cloud_mockups at the same time;   *)
(*   SpecLoad    MockupLibrary.__init__ reading cloud_sources.txt;         *)
(*   SpecCatalog get_all_mockups at start-up, on refresh, after a restart; *)
(*   SpecExtract one call of extract_psd_thumbnail;                        *)
(*   SpecExtractLive  calls of extract_psd_thumbnail followed to their     *)
(*               return, the thread being scheduled;                       *)
(*   SpecGui     the main window: inputs, run and reset controls, and the  *)
(*               worker threads run_job starts;                            *)
(*   SpecGuiLive the same with the threads and the event loop scheduled.   *)
(***************************************************************************)
EXTENDS Integers, Sequences, FiniteSets, TLC

(* ------------------------------ bounds --------------------------------- *)
\* longest template list of a job
MaxTemplates == 3
\* largest numeric suffix of an output file present before the job starts
MaxSuffix == 1
\* longest list of configured cloud URLs
MaxUrls == 2
\* calls of _get_cloud_mockups / clear_cache the GUI thread makes
MaxCalls == 3
\* most lines of a configuration file
MaxLines == 2
\* most resources in the image-resources section of a template
MaxBlocks == 2
\* most jobs started during one session of the main window
MaxJobs == 2

(* --------------------------- render worker ----------------------------- *)
\* template base names (os.path.splitext(os.path.basename(psd))[0])
PsdNames == {"a", "b"}

\* every job the run control can build: run_job refuses an empty list
Jobs == UNION {[1..n -> PsdNames] : n \in 1..MaxTemplates}

\* an output path: "<name>.jpg" is <<name, 0>>, "<name>_<k>.jpg" is <<name, k>>

VARIABLES
  pc,           \* position of the worker thread inside Worker.run
  psds,         \* self.job.psds
  i,            \* loop variable of "for i, psd in enumerate(psds, start=1)"
  out,          \* local variable out of the current iteration
  outFiles,     \* files present in the output directory
  emitted,      \* every signal emitted by the worker, in emission order
  renderCalls,  \* every call of render(psd, art, out), in call order
  dispatchCalls, \* calls of win32com.client.Dispatch made by the thread
  ps_available, \* outcome of the Dispatch call at the head of run
  raised        \* loop indices whose call of render raised

VARIABLES
  cacheDirExists, \* os.path.exists(self.cache_dir)
  cacheFiles,     \* cache file name -> "complete" | "partial", files present
  cloud_urls,     \* self.cloud_urls
  cpc,            \* per thread: position inside _get_cloud_mockups
  idx,            \* per thread: loop variable i of the second pass
  cloud_psds,     \* per thread: local list cloud_psds
  returned,       \* per thread: value of the last return of _get_cloud_mockups
  fetchCount,     \* per URL: calls of urllib.request.urlretrieve
  resHist,        \* per URL: outcomes of its resolutions since the last clear
  cachedAtClear,  \* per URL: "cached" if its file existed when clear_cache
                  \* last ran, "uncached" if not, "noclear" before any clear
  calls           \* operations started by the GUI thread

VARIABLES
  cfgExists,      \* os.path.exists(self.cloud_config_file)
  cfgLines,       \* the lines of cloud_sources.txt
  lpc,            \* position inside _load_cloud_sources
  lineNo,         \* the line "for line in f" is at
  urls            \* local list urls of _load_cloud_sources

VARIABLES
  gpc,            \* position of the GUI thread around get_all_mockups
  localFiles,     \* files the user keeps under the library root
  psd_files,      \* local list psd_files of get_all_mockups
  catalog,        \* the list get_all_mockups returned last
  produced,       \* history: catalogs produced so far
  prevCatalog,    \* history: the catalog returned before the last one
  callOut,        \* history: outcome per URL position of the running call
  netFailed,      \* history: a request or transfer failed in this call
  delMark         \* history: the cache directory was deleted by hand

VARIABLES
  xin,            \* the file extract_psd_thumbnail is called on
  xbytes,         \* the bytes of that file
  xpc,            \* position inside extract_psd_thumbnail
  xpos,           \* f.tell()
  xend,           \* resources_end
  xid,            \* resource_id
  xsize,          \* data_size
  xres,           \* what the call returned, or that it raised
  xexc            \* history: an exception was raised inside the try block

VARIABLES
  run_btn,        \* self.run_btn.isEnabled()
  art_path,       \* self.art_path.text()
  out_dir,        \* self.out_dir.text()
  selected_library_psds, \* len(self.selected_library_psds)
  psd_list,       \* self.psd_list.count()
  workers         \* the Worker threads started so far; self.worker is the last

pvars == <<pc, psds, i, out, outFiles, emitted, renderCalls, dispatchCalls,
           ps_available, raised>>
cvars == <<cacheDirExists, cacheFiles, cloud_urls, cpc, idx, cloud_psds,
           returned, fetchCount, resHist, cachedAtClear, calls>>
lvars == <<cfgExists, cfgLines, lpc, lineNo, urls>>
gvars == <<gpc, localFiles, psd_files, catalog, produced, prevCatalog,
           callOut, netFailed, delMark>>
xvars == <<xin, xbytes, xpc, xpos, xend, xid, xsize, xres, xexc>>
uvars == <<run_btn, art_path, out_dir, selected_library_psds, psd_list,
           workers>>
vars == <<pvars, cvars, lvars, gvars, xvars, uvars>>

\* what each component leaves alone
notWorker == <<cvars, lvars, gvars, xvars, uvars>>
notCache == <<pvars, lvars, gvars, xvars, uvars>>
notCatalog == <<pvars, lvars, xvars, uvars>>
notGui == <<pvars, cvars, lvars, gvars, xvars>>

Sig(s, m, n) == [sig |-> s, msg |-> m, n |-> n]

\* the eleven log lines of the Photoshop-not-found branch
PreflightFailLogs ==
  << Sig("log", "=====", 0),
     Sig("log", "ERROR: Adobe Photoshop not found!", 0),
     Sig("log", "=====", 0),
     Sig("log", "", 0),
     Sig("log", "This application requires Adobe Photoshop to be installed", 0),
     Sig("log", "on your computer to process mockups.", 0),
     Sig("log", "", 0),
     Sig("log", "Please install Adobe Photoshop and try again.", 0),
     Sig("log", "", 0),
     Sig("log", "Technical error", 0),
     Sig("log", "=====", 0) >>

\* os.path.exists on a file of the output directory
PathExists(p) == p \in outFiles

\* the first numbered name, looked up or not
NextFree_NoProbe(name, counter) == <<name, counter>>

RECURSIVE NextFree(_, _)
NextFree(name, counter) ==
  IF ~PathExists(<<name, counter>>) THEN <<name, counter>>
  ELSE NextFree(name, counter + 1)

\* the candidate handed back without looking at the directory
get_unique_filepath_AsGiven(filepath) == filepath

get_unique_filepath(filepath) ==
  IF ~PathExists(filepath) THEN filepath
  ELSE NextFree(filepath[1], 1)

\* (i, total) where the double product (i / total) * 100 falls just below
\* the integer 100 * i / total, for total <= 100
FloatShort == {<<29, 50>>, <<29, 100>>, <<57, 100>>, <<58, 100>>}

\* the percentage rounded to the nearest integer, ties to even (round())
ProgressPercent_Rounded(k, n) ==
  LET q == (100 * k) \div n
      r == (100 * k) % n
  IN IF 2 * r > n THEN q + 1
     ELSE IF 2 * r < n THEN q
     ELSE IF q % 2 = 0 THEN q ELSE q + 1

\* the percentage of a loop counted from 0 (enumerate without start=1)
ProgressPercent_ZeroBased(k, n) == (100 * (k - 1)) \div n

\* int((i / total) * 100): float division, float product, truncation
ProgressPercent(k, n) ==
  IF <<k, n>> \in FloatShort
    THEN ((100 * k) \div n) - 1
    ELSE (100 * k) \div n

total == Len(psds)

Emit(s) == emitted' = Append(emitted, s)

\* QThread.start(): the thread enters run()
Start ==
  /\ pc = "idle"
  /\ pc' = "preflight"
  /\ UNCHANGED <<psds, i, out, outFiles, emitted, renderCalls, dispatchCalls,
                 ps_available, raised>>

\* the Photoshop-not-found branch without its return statement
PreflightFail_FallThrough ==
  /\ pc = "preflight"
  /\ dispatchCalls' = dispatchCalls + 1
  /\ emitted' = emitted \o PreflightFailLogs
                        \o <<Sig("error", "Photoshop not found", 0)>>
  /\ ps_available' = "no"
  /\ i' = 1
  /\ pc' = "loop"
  /\ UNCHANGED <<psds, out, outFiles, renderCalls, raised>>

\* Dispatch("Photoshop.Application") raised
PreflightFail ==
  /\ pc = "preflight"
  /\ dispatchCalls' = dispatchCalls + 1
  /\ emitted' = emitted \o PreflightFailLogs
                        \o <<Sig("error", "Photoshop not found", 0)>>
  /\ ps_available' = "no"
  /\ pc' = "returned"
  /\ UNCHANGED <<psds, i, out, outFiles, renderCalls, raised>>

\* Dispatch succeeded
PreflightOk ==
  /\ pc = "preflight"
  /\ dispatchCalls' = dispatchCalls + 1
  /\ Emit(Sig("log", "Photoshop detected", total))
  /\ ps_available' = "yes"
  /\ i' = 1
  /\ pc' = "loop"
  /\ UNCHANGED <<psds, out, outFiles, renderCalls, raised>>

\* the loop walking the template list from its end
RenderInvoke_Reversed ==
  /\ pc = "loop"
  /\ i <= total
  /\ LET j == total - i + 1
         o == get_unique_filepath(<<psds[j], 0>>)
     IN /\ out' = o
        /\ Emit(Sig("log", "Processing", j))
        /\ renderCalls' = Append(renderCalls, [idx |-> j, psd |-> psds[j], out |-> o])
  /\ pc' = "render"
  /\ UNCHANGED <<psds, i, outFiles, dispatchCalls, ps_available, raised>>

\* loop head and body up to the call of render
RenderInvoke ==
  /\ pc = "loop"
  /\ i <= total
  /\ LET o == get_unique_filepath(<<psds[i], 0>>)
     IN /\ out' = o
        /\ Emit(Sig("log", "Processing", i))
        /\ renderCalls' = Append(renderCalls, [idx |-> i, psd |-> psds[i], out |-> o])
  /\ pc' = "render"
  /\ UNCHANGED <<psds, i, outFiles, dispatchCalls, ps_available, raised>>

\* render returned: the script exported the file, or its catch block
\* swallowed an error and nothing was written
RenderReturn ==
  /\ pc = "render"
  /\ dispatchCalls' = dispatchCalls + 1
  /\ \E written \in BOOLEAN :
       outFiles' = IF written THEN outFiles \cup {out} ELSE outFiles
  /\ Emit(Sig("progress", "", ProgressPercent(i, total)))
  /\ i' = i + 1
  /\ pc' = "loop"
  /\ UNCHANGED <<psds, out, renderCalls, ps_available, raised>>

\* an except branch that leaves the loop after the first failure
RenderRaise_FailFast ==
  /\ pc = "render"
  /\ dispatchCalls' = dispatchCalls + 1
  /\ emitted' = emitted \o << Sig("log", "Error processing", i),
                              Sig("progress", "", ProgressPercent(i, total)) >>
  /\ raised' = raised \cup {i}
  /\ i' = total + 1
  /\ pc' = "loop"
  /\ UNCHANGED <<psds, out, outFiles, renderCalls, ps_available>>

\* render raised (Dispatch or DoJavaScript): the except branch logs it
RenderRaise ==
  /\ pc = "render"
  /\ dispatchCalls' = dispatchCalls + 1
  /\ emitted' = emitted \o << Sig("log", "Error processing", i),
                              Sig("progress", "", ProgressPercent(i, total)) >>
  /\ raised' = raised \cup {i}
  /\ i' = i + 1
  /\ pc' = "loop"
  /\ UNCHANGED <<psds, out, outFiles, renderCalls, ps_available>>

\* a return that reports completion only for a run without failures
Finish_OnlyWithoutFailures ==
  /\ pc = "loop"
  /\ i > total
  /\ emitted' = IF raised = {} THEN Append(emitted, Sig("finished", "", 0))
                ELSE emitted
  /\ pc' = "returned"
  /\ UNCHANGED <<psds, i, out, outFiles, renderCalls, dispatchCalls,
                 ps_available, raised>>

\* the loop is exhausted
Finish ==
  /\ pc = "loop"
  /\ i > total
  /\ Emit(Sig("finished", "", 0))
  /\ pc' = "returned"
  /\ UNCHANGED <<psds, i, out, outFiles, renderCalls, dispatchCalls,
                 ps_available, raised>>

(* ------------------------------ strings -------------------------------- *)
\* A string (URL, configuration line, file name, path) is a sequence of
\* tokens; every separator the code searches for or splits at is a token of
\* its own, so that the str methods below compute on the text.

\* str.startswith, str.endswith
StartsWith(s, p) == Len(s) >= Len(p) /\ SubSeq(s, 1, Len(p)) = p
EndsWith(s, p) == Len(s) >= Len(p) /\ SubSeq(s, Len(s) - Len(p) + 1, Len(s)) = p

\* str.find, counted from 1; 0 when sub does not occur
Find(s, sub) ==
  LET hits == {k \in 1..(Len(s) - Len(sub) + 1) :
                 SubSeq(s, k, k + Len(sub) - 1) = sub}
  IN IF hits = {} THEN 0 ELSE CHOOSE k \in hits : \A j \in hits : k <= j

\* "sub in s"
Contains(s, sub) == Find(s, sub) # 0

\* str.split(sep)
RECURSIVE Split(_, _)
Split(s, sep) ==
  LET k == Find(s, sep)
  IN IF k = 0 THEN <<s>>
     ELSE <<SubSeq(s, 1, k - 1)>> \o Split(SubSeq(s, k + Len(sep), Len(s)), sep)

Whitespace == {" ", "\n"}

\* str.strip()
RECURSIVE Strip(_)
Strip(s) ==
  IF s = <<>> THEN s
  ELSE IF s[1] \in Whitespace THEN Strip(Tail(s))
  ELSE IF s[Len(s)] \in Whitespace THEN Strip(SubSeq(s, 1, Len(s) - 1))
  ELSE s

\* str.lower()
LowerTok(t) == CASE t = ".PSD" -> ".psd" [] t = "Mock" -> "mock" [] OTHER -> t
Lower(s) == [k \in DOMAIN s |-> LowerTok(s[k])]

(* ---------------------------- cloud cache ------------------------------ *)
Https == <<"https:", "/", "/">>

\* a direct link to a template
UrlPsd == Https \o <<"x.com", "/", "mock", ".psd">>
\* a Google Drive sharing link of one file
UrlDriveFile ==
  Https \o <<"drive.google.com", "/", "file", "/", "d", "/", "ID1", "/", "view">>
\* the other sharing link shape of the same Drive file
UrlDriveOpen == Https \o <<"drive.google.com", "/", "open", "?", "id=", "ID1">>
\* the same file name on another host, in upper case, behind a query
UrlOtherHost == Https \o <<"y.org", "/", "mock", ".psd">>
UrlUpper == Https \o <<"x.com", "/", "b", "/", "Mock", ".PSD">>
UrlQuery == Https \o <<"x.com", "/", "mock", ".psd", "?", "dl=1">>
\* a link to a file of another type
UrlZip == Https \o <<"x.com", "/", "pack", ".zip">>
\* Google Drive folder links: plain, with a user segment, without an id
UrlFolder ==
  Https \o <<"drive.google.com", "/", "drive", "/", "folders", "/", "FID">>
UrlFolderU ==
  Https \o <<"drive.google.com", "/", "drive", "/", "u", "/", "0", "/",
             "folders", "/", "FID">>
UrlFolderNoId == Https \o <<"drive.google.com", "/", "drive", "/", "folders">>

\* the direct-download link of the Drive file
UrlDriveDirect ==
  Https \o <<"drive.google.com", "/", "uc", "?", "export=download", "&",
             "id=", "ID1">>

\* the URLs the cache specifications configure
Urls == {UrlPsd, UrlDriveFile}

\* threads that may run _get_cloud_mockups; thread 1 is the GUI thread
Threads == {1, 2}

\* the entries _get_files_from_gdrive_folder returns for a folder link
FolderGuidance(folder_url) ==
  << <<"#", " ", "FOLDER:", " ">> \o folder_url,
     <<"#", " ", "Please replace this with individual file URLs">>,
     <<"#", " ", "Right-click each file > Share > Copy link">> >>

\* hashlib.md5(url.encode()).hexdigest(): 32 hex digits, one digest per
\* string (the digest is taken to be injective)
Md5(url) ==
  CASE url = UrlPsd -> "0d"
    [] url = UrlDriveFile -> "1c"
    [] url = UrlDriveOpen -> "2b"
    [] url = UrlOtherHost -> "3a"
    [] url = UrlUpper -> "49"
    [] url = UrlQuery -> "58"
    [] url = UrlZip -> "67"
    [] url = FolderGuidance(UrlFolder)[1] -> "76"
    [] url = FolderGuidance(UrlFolderU)[1] -> "85"
    [] url = FolderGuidance(UrlFolder)[2] -> "94"
    [] url = FolderGuidance(UrlFolder)[3] -> "a3"
    [] url = UrlFolder -> "b2"
    [] url = UrlFolderU -> "c1"
    [] url = UrlFolderNoId -> "d0"
    [] url = UrlDriveDirect -> "ef"

\* url.split('/')[-1].split('?')[0]
OriginalName(url) ==
  LET last == Split(url, <<"/">>)[Len(Split(url, <<"/">>))]
  IN Split(last, <<"?">>)[1]

\* original_name.lower().endswith('.psd')
EndsWithPsd(name) == EndsWith(Lower(name), <<".psd">>)

\* _get_google_drive_direct_link: the URL urlretrieve is given
get_google_drive_direct_link(url) ==
  IF Contains(url, <<"drive.google.com">>)
    THEN IF Contains(url, <<"/", "file", "/", "d", "/">>)
           THEN Https \o <<"drive.google.com", "/", "uc", "?",
                           "export=download", "&", "id=">>
                      \o Split(Split(url, <<"/", "file", "/", "d", "/">>)[2],
                               <<"/">>)[1]
         ELSE IF Contains(url, <<"id=">>)
           THEN Https \o <<"drive.google.com", "/", "uc", "?",
                           "export=download", "&", "id=">>
                      \o Split(Split(url, <<"id=">>)[2], <<"&">>)[1]
         ELSE url
    ELSE url

\* a file name derived from the download link instead of the source URL
get_cached_filename_OfDirectLink(url) ==
  LET link == get_google_drive_direct_link(url)
  IN IF EndsWithPsd(OriginalName(link))
       THEN <<Md5(link), "_">> \o OriginalName(link)
       ELSE <<Md5(link), ".psd">>

get_cached_filename(url) ==
  IF EndsWithPsd(OriginalName(url))
    THEN <<Md5(url), "_">> \o OriginalName(url)
    ELSE <<Md5(url), ".psd">>

\* self.library_root and self.cache_dir
library_root == <<"C:", "\\", "app", "\\", "mockup_library">>
cache_dir == library_root \o <<"\\", "_cache">>

\* os.path.join(self.cache_dir, cache_filename)
CachePath(name) == cache_dir \o <<"\\">> \o name

CacheNames == {get_cached_filename(u) : u \in Urls}

\* os.path.exists(os.path.join(self.cache_dir, name))
CacheFileExists(name) == cacheDirExists /\ cacheFiles[name] # "absent"

NoFiles == [n \in CacheNames |-> "absent"]

\* the outcome o of a resolution of url joins its history
Noted(url, o) == resHist' = [resHist EXCEPT ![url] = Append(@, o)]

\* the URL the second pass of thread c is at
CurUrl(c) == cloud_urls[idx[c]]

\* the GUI thread is between two library operations
GuiIdle == cpc[1] = "idle"

\* entry of _get_cloud_mockups up to the second loop; the first pass only
\* counts the missing files for a console message
CallGetCloud(c) ==
  /\ cpc[c] = "idle"
  /\ calls < MaxCalls
  /\ calls' = calls + 1
  /\ IF Len(cloud_urls) = 0
       THEN /\ returned' = [returned EXCEPT ![c] = <<>>]
            /\ UNCHANGED <<cpc, idx, cloud_psds>>
       ELSE /\ cpc' = [cpc EXCEPT ![c] = "check"]
            /\ idx' = [idx EXCEPT ![c] = 1]
            /\ cloud_psds' = [cloud_psds EXCEPT ![c] = <<>>]
            /\ UNCHANGED returned
  /\ UNCHANGED <<cacheDirExists, cacheFiles, cloud_urls, fetchCount, resHist,
                 cachedAtClear>>

\* a second pass that downloads every URL without looking at the cache
CheckCache_AlwaysDownload(c) ==
  /\ cpc[c] = "check"
  /\ idx[c] <= Len(cloud_urls)
  /\ cpc' = [cpc EXCEPT ![c] = "download"]
  /\ UNCHANGED <<cacheDirExists, cacheFiles, cloud_urls, idx, cloud_psds,
                 returned, fetchCount, resHist, cachedAtClear, calls>>

\* "if not os.path.exists(cache_path)" and its else branch
CheckCache(c) ==
  /\ cpc[c] = "check"
  /\ idx[c] <= Len(cloud_urls)
  /\ LET name == get_cached_filename(CurUrl(c))
     IN IF CacheFileExists(name)
          THEN /\ cloud_psds' = [cloud_psds EXCEPT
                                    ![c] = Append(@, CachePath(name))]
               /\ idx' = [idx EXCEPT ![c] = @ + 1]
               /\ Noted(CurUrl(c), "hit")
               /\ UNCHANGED cpc
          ELSE /\ cpc' = [cpc EXCEPT ![c] = "download"]
               /\ UNCHANGED <<cloud_psds, idx, resHist>>
  /\ UNCHANGED <<cacheDirExists, cacheFiles, cloud_urls, returned, fetchCount,
                 cachedAtClear, calls>>

\* _download_file calls urlretrieve, which opens the URL: the request either
\* fails (URLError, nothing written, return False) or answers
UrlOpen(c) ==
  /\ cpc[c] = "download"
  /\ fetchCount' = [fetchCount EXCEPT ![CurUrl(c)] = @ + 1]
  /\ \/ /\ cpc' = [cpc EXCEPT ![c] = "opened"]
        /\ UNCHANGED <<idx, resHist>>
     \/ /\ cpc' = [cpc EXCEPT ![c] = "check"]
        /\ idx' = [idx EXCEPT ![c] = @ + 1]
        /\ Noted(CurUrl(c), "failed")
  /\ UNCHANGED <<cacheDirExists, cacheFiles, cloud_urls, cloud_psds, returned,
                 cachedAtClear, calls>>

\* urlretrieve opens the destination for writing: the file is created or
\* truncated; without the cache directory the open raises and
\* _download_file returns False
OpenDest(c) ==
  /\ cpc[c] = "opened"
  /\ IF cacheDirExists
       THEN /\ cacheFiles' = [cacheFiles EXCEPT
                                ![get_cached_filename(CurUrl(c))] = "partial"]
            /\ cpc' = [cpc EXCEPT ![c] = "writing"]
            /\ UNCHANGED <<idx, resHist>>
       ELSE /\ cpc' = [cpc EXCEPT ![c] = "check"]
            /\ idx' = [idx EXCEPT ![c] = @ + 1]
            /\ Noted(CurUrl(c), "failed")
            /\ UNCHANGED cacheFiles
  /\ UNCHANGED <<cacheDirExists, cloud_urls, cloud_psds, returned, fetchCount,
                 cachedAtClear, calls>>

\* the transfer ran to its end: _download_file returns True and the path
\* is appended
TransferDone(c) ==
  /\ cpc[c] = "writing"
  /\ LET name == get_cached_filename(CurUrl(c))
     IN /\ cacheFiles' = [cacheFiles EXCEPT ![name] = "complete"]
        /\ cloud_psds' = [cloud_psds EXCEPT ![c] = Append(@, CachePath(name))]
  /\ idx' = [idx EXCEPT ![c] = @ + 1]
  /\ cpc' = [cpc EXCEPT ![c] = "check"]
  /\ Noted(CurUrl(c), "fetched")
  /\ UNCHANGED <<cacheDirExists, cloud_urls, returned, fetchCount,
                 cachedAtClear, calls>>

\* a broken transfer whose path is listed all the same
TransferFail_Appends(c) ==
  /\ cpc[c] = "writing"
  /\ cloud_psds' = [cloud_psds EXCEPT
                      ![c] = Append(@, CachePath(get_cached_filename(CurUrl(c))))]
  /\ idx' = [idx EXCEPT ![c] = @ + 1]
  /\ cpc' = [cpc EXCEPT ![c] = "check"]
  /\ Noted(CurUrl(c), "failed_partial")
  /\ UNCHANGED <<cacheDirExists, cacheFiles, cloud_urls, returned,
                 fetchCount, cachedAtClear, calls>>

\* the transfer broke off (connection lost, ContentTooShortError): the
\* except branches return False and leave the destination as written so far
TransferFail(c) ==
  /\ cpc[c] = "writing"
  /\ idx' = [idx EXCEPT ![c] = @ + 1]
  /\ cpc' = [cpc EXCEPT ![c] = "check"]
  /\ Noted(CurUrl(c), "failed_partial")
  /\ UNCHANGED <<cacheDirExists, cacheFiles, cloud_urls, cloud_psds, returned,
                 fetchCount, cachedAtClear, calls>>

\* the second loop is exhausted: return cloud_psds
ReturnCloud(c) ==
  /\ cpc[c] = "check"
  /\ idx[c] > Len(cloud_urls)
  /\ returned' = [returned EXCEPT ![c] = cloud_psds[c]]
  /\ cpc' = [cpc EXCEPT ![c] = "idle"]
  /\ UNCHANGED <<cacheDirExists, cacheFiles, cloud_urls, idx, cloud_psds,
                 fetchCount, resHist, cachedAtClear, calls>>

\* the cache directory after clear_cache: rmtree and makedirs run only when
\* the directory exists
ClearedDir(dirExists) == dirExists
\* a clear that recreates the directory without removing its files
ClearedFiles_Kept(dirExists, files) == files

ClearedFiles(dirExists, files) == IF dirExists THEN NoFiles ELSE files

\* clear_cache, called by the GUI thread (refresh_library)
ClearCache ==
  /\ GuiIdle
  /\ calls < MaxCalls
  /\ calls' = calls + 1
  /\ cacheDirExists' = ClearedDir(cacheDirExists)
  /\ cacheFiles' = ClearedFiles(cacheDirExists, cacheFiles)
  /\ cachedAtClear' = [u \in Urls |->
        IF CacheFileExists(get_cached_filename(u)) THEN "cached" ELSE "uncached"]
  /\ resHist' = [u \in Urls |-> <<>>]
  /\ UNCHANGED <<cloud_urls, cpc, idx, cloud_psds, returned, fetchCount>>

(* ------------------------------ catalog -------------------------------- *)
Sep == <<"\\">>

\* the configuration file and the files a user may have put in the library
ConfigFile == library_root \o Sep \o <<"cloud_sources", ".txt">>
LocalCandidates ==
  { library_root \o Sep \o <<"a", ".psd">>,
    library_root \o Sep \o <<"sub">> \o Sep \o <<"B", ".PSD">>,
    library_root \o Sep \o <<"old", "_cache">> \o Sep \o <<"d", ".psd">> }

\* position of the last separator of a path
LastSep(path) ==
  CHOOSE k \in DOMAIN path :
    path[k] = "\\" /\ \A j \in (k + 1)..Len(path) : path[j] # "\\"

\* root and file of os.walk for one file
DirOf(path) == SubSeq(path, 1, LastSep(path) - 1)
FileOf(path) == SubSeq(path, LastSep(path) + 1, Len(path))

\* every file below the library root
AllFiles ==
  localFiles \cup {ConfigFile}
    \cup {CachePath(n) : n \in {m \in CacheNames : CacheFileExists(m)}}

\* the walk filter that skips nothing but non-templates
Walked_CacheIncluded(path) ==
  EndsWithPsd(FileOf(path)) /\ FileOf(path) # <<"cloud_sources", ".txt">>

\* the walk filter of get_all_mockups: "'_cache' in root" and the file test
Walked(path) ==
  /\ ~Contains(DirOf(path), <<"_cache">>)
  /\ EndsWithPsd(FileOf(path))
  /\ FileOf(path) # <<"cloud_sources", ".txt">>

\* os.walk is top-down: a directory's files come before those of the
\* directories below it; the order among siblings is the listing order
WalkOrders(files) ==
  {order \in [1..Cardinality(files) -> files] :
     /\ \A j, k \in DOMAIN order : j # k => order[j] # order[k]
     /\ \A j, k \in DOMAIN order :
          j < k => ~(/\ StartsWith(DirOf(order[j]), DirOf(order[k]))
                     /\ DirOf(order[j]) # DirOf(order[k]))}

\* code point of the first character of a path component
TokRank(t) ==
  CASE t = "_cache" -> 95
    [] t = "a" -> 97
    [] t = "old" -> 111
    [] t = "sub" -> 115
    [] t = "cloud_sources" -> 99
    [] t = "0d" -> 48
    [] t = "1c" -> 49
    [] t = "2b" -> 50
    [] t = "3a" -> 51
    [] t = "49" -> 52
    [] t = "58" -> 53
    [] t = "67" -> 54

\* p < q of Python strings, for paths that first differ at the start of a
\* component
PathLess(p, q) ==
  LET diff == {k \in 1..Len(p) : k <= Len(q) /\ p[k] # q[k]}
  IN IF diff = {}
       THEN Len(p) < Len(q)
       ELSE LET d == CHOOSE k \in diff : \A j \in diff : k <= j
            IN TokRank(p[d]) < TokRank(q[d])

\* x put into an ascending list behind everything not greater
RECURSIVE Insert(_, _)
Insert(x, list) ==
  IF list = <<>> THEN <<x>>
  ELSE IF PathLess(x, Head(list)) THEN <<x>> \o list
  ELSE <<Head(list)>> \o Insert(x, Tail(list))

\* a result that keeps the order of collection
SortedPaths_AsCollected(list) == list

\* sorted(psd_files)
RECURSIVE SortedPaths(_)
SortedPaths(list) ==
  IF list = <<>> THEN <<>>
  ELSE Insert(list[Len(list)], SortedPaths(SubSeq(list, 1, Len(list) - 1)))

\* get_all_mockups up to the call of _get_cloud_mockups: the library root
\* is walked; it runs at start-up and after clear_cache in refresh_library
ScanLocal ==
  /\ gpc \in {"start", "cleared"}
  /\ calls < MaxCalls
  /\ \E order \in WalkOrders({f \in AllFiles : Walked(f)}) : psd_files' = order
  /\ gpc' = "scanned"
  /\ callOut' = <<>>
  /\ netFailed' = FALSE
  /\ delMark' = IF delMark = "deleted" THEN "during" ELSE "no"
  /\ UNCHANGED <<localFiles, catalog, produced, prevCatalog>>

\* what a step of _get_cloud_mockups adds to the history of the call
CloudStepNoted ==
  /\ callOut' = IF resHist' # resHist
                  THEN Append(callOut, resHist'[CurUrl(1)][Len(resHist'[CurUrl(1)])])
                  ELSE callOut
  /\ UNCHANGED <<gpc, localFiles, psd_files, catalog, produced, prevCatalog,
                 delMark>>

\* "psd_files.extend(cloud_psds)" and "return sorted(psd_files)"
SortReturn ==
  /\ gpc = "cloud"
  /\ cpc[1] = "idle"
  /\ psd_files' = psd_files \o returned[1]
  /\ catalog' = SortedPaths(psd_files \o returned[1])
  /\ prevCatalog' = catalog
  /\ produced' = produced + 1
  /\ gpc' = "idle"
  /\ UNCHANGED <<localFiles, callOut, netFailed, delMark>>

\* the user deletes the cache directory while the application is idle
DeleteCacheDir ==
  /\ gpc = "idle"
  /\ cacheDirExists
  /\ delMark = "no"
  /\ cacheDirExists' = FALSE
  /\ cacheFiles' = NoFiles
  /\ delMark' = "deleted"
  /\ UNCHANGED <<cloud_urls, cpc, idx, cloud_psds, returned, fetchCount,
                 resHist, cachedAtClear, calls>>
  /\ UNCHANGED <<gpc, localFiles, psd_files, catalog, produced, prevCatalog,
                 callOut, netFailed>>

\* the application is started again: _ensure_library_structure makes the
\* missing cache directory (a failure is printed), the unchanged
\* configuration is read again; the histories of the run that ended are
\* dropped
Restart ==
  /\ gpc = "idle"
  /\ calls < MaxCalls
  /\ cacheDirExists' \in IF cacheDirExists THEN {TRUE} ELSE BOOLEAN
  /\ cpc' = [c \in Threads |-> "idle"]
  /\ idx' = [c \in Threads |-> 0]
  /\ cloud_psds' = [c \in Threads |-> <<>>]
  /\ returned' = [c \in Threads |-> <<>>]
  /\ psd_files' = <<>>
  /\ gpc' = "start"
  /\ fetchCount' = [u \in Urls |-> 0]
  /\ resHist' = [u \in Urls |-> <<>>]
  /\ cachedAtClear' = [u \in Urls |-> "noclear"]
  /\ callOut' = <<>>
  /\ netFailed' = FALSE
  /\ UNCHANGED <<cacheFiles, cloud_urls, calls>>
  /\ UNCHANGED <<localFiles, catalog, produced, prevCatalog, delMark>>

(* ------------------------- thumbnail extractor ------------------------- *)
Min(a, b) == IF a < b THEN a ELSE b

\* b'8BPS', b'8BIM' and a block signature that is neither
Sig8BPS == <<56, 66, 80, 83>>
Sig8BIM == <<56, 66, 73, 77>>
SigOther == <<56, 66, 73, 88>>

\* resource ids of the JPEG and the raw thumbnail, length of the header in
\* front of the JPEG data
JpegThumbId == 1036
RawThumbId == 1033
ThumbHeaderLen == 28

\* struct.pack('>H', n) and struct.pack('>I', n) for n < 65536
U16(n) == <<n \div 256, n % 256>>
U32(n) == <<0, 0>> \o U16(n)

\* struct.unpack of a big-endian unsigned integer
RECURSIVE Unpack(_)
Unpack(bytes) ==
  IF bytes = <<>> THEN 0
  ELSE 256 * Unpack(SubSeq(bytes, 1, Len(bytes) - 1)) + bytes[Len(bytes)]

Zeros(n) == [k \in 1..n |-> 0]

\* JPEG streams: start-of-image marker ... end-of-image marker
JpegA == <<255, 216, 255, 217>>
JpegB == <<255, 216, 7, 255, 217>>
\* the header of a thumbnail resource: format 1 (JPEG), then sizes
ThumbHeader == <<0, 0, 0, 1>> \o Zeros(24)

\* one image resource: signature, id, Pascal name padded to even length,
\* data size, data padded to even length
Resource(sig, id, name, data) ==
  sig \o U16(id) \o <<Len(name)>> \o name
      \o (IF (Len(name) + 1) % 2 # 0 THEN <<0>> ELSE <<>>)
      \o U32(Len(data)) \o data
      \o (IF Len(data) % 2 # 0 THEN <<0>> ELSE <<>>)

\* the resources a template may hold
BlockKinds == {"O0", "O1", "Z", "J", "Jodd", "Jbad", "Jtiny", "R", "W"}
Block(kind) ==
  CASE kind = "O0" -> Resource(Sig8BIM, 1005, <<>>, <<9, 9>>)
    [] kind = "O1" -> Resource(Sig8BIM, 1060, <<120>>, <<9, 9, 9>>)
    [] kind = "Z" -> Resource(Sig8BIM, 1005, <<>>, <<>>)
    [] kind = "J" -> Resource(Sig8BIM, JpegThumbId, <<>>, ThumbHeader \o JpegA)
    [] kind = "Jodd" -> Resource(Sig8BIM, JpegThumbId, <<>>, ThumbHeader \o JpegB)
    [] kind = "Jbad" -> Resource(Sig8BIM, JpegThumbId, <<>>, ThumbHeader \o Zeros(4))
    [] kind = "Jtiny" -> Resource(Sig8BIM, JpegThumbId, <<>>, Zeros(10))
    [] kind = "R" -> Resource(Sig8BIM, RawThumbId, <<>>, ThumbHeader \o <<1, 2, 3>>)
    [] kind = "W" -> Resource(SigOther, 1005, <<>>, <<9, 9>>)

RECURSIVE Blocks(_)
Blocks(kinds) ==
  IF kinds = <<>> THEN <<>> ELSE Block(Head(kinds)) \o Blocks(Tail(kinds))

\* a template file: header, colour mode data, image resources, and the
\* length field of the section that follows
Container(kinds) ==
  Sig8BPS \o U16(1) \o Zeros(6) \o U16(3) \o U32(1) \o U32(1) \o U16(8) \o U16(3)
    \o U32(2) \o <<1, 2>>
    \o U32(Len(Blocks(kinds))) \o Blocks(kinds)
    \o U32(0)

\* the bytes of the file of descriptor d: the container of its resources,
\* its fourth byte changed when the signature is wrong, cut after d.cut bytes
FileBytes(d) ==
  LET full == Container(d.blocks)
  IN SubSeq(IF d.sigOk THEN full ELSE [full EXCEPT ![4] = 88], 1, d.cut)

\* f.read(n) at position p of the bytes: what is left when n goes too far
ReadAt(bytes, p, n) == SubSeq(bytes, p + 1, Min(p + n, Len(bytes)))

\* the results of a call
NoResult == [kind |-> "pending", data |-> <<>>]
ReturnedNone == [kind |-> "none", data |-> <<>>]
Pixmap(jpeg_data) == [kind |-> "pixmap", data |-> jpeg_data]

\* an exception that leaves the function
OnException_Propagates == [kind |-> "raised", data |-> <<>>]

\* "except Exception": the error is printed, "return None" follows
OnException == ReturnedNone

\* a test that lets every file pass
SignatureOk_Any(signature) == TRUE

\* "signature != b'8BPS'"
SignatureOk(signature) == signature = Sig8BPS

\* QImage.loadFromData: a whole JPEG stream loads, a stream that breaks
\* off may or may not, anything else does not
DecodeOutcomes(jpeg_data) ==
  IF Len(jpeg_data) >= 2 /\ SubSeq(jpeg_data, 1, 2) = <<255, 216>>
    THEN IF Len(jpeg_data) >= 4
              /\ SubSeq(jpeg_data, Len(jpeg_data) - 1, Len(jpeg_data)) = <<255, 217>>
           THEN {TRUE}
           ELSE {TRUE, FALSE}
    ELSE {FALSE}

\* the whole data of the resource taken for the JPEG stream
JpegData_WithHeader(bytes, p, size) == ReadAt(bytes, p, size)

\* "f.read(28)" and "jpeg_data = f.read(data_size - 28)" at position p; a
\* size of -1 reads to the end of the file
JpegData(bytes, p, size) ==
  LET afterHeader == Min(p + ThumbHeaderLen, Len(bytes))
  IN IF size - ThumbHeaderLen = -1
       THEN SubSeq(bytes, afterHeader + 1, Len(bytes))
       ELSE ReadAt(bytes, afterHeader, size - ThumbHeaderLen)

\* the call ends with result r
Return(r, inExcept) ==
  /\ xres' = r
  /\ xexc' = inExcept
  /\ xpc' = "done"

\* open and the signature test; a missing file makes open raise
ReadSignature ==
  /\ xpc = "open"
  /\ IF ~xin.exists
       THEN Return(OnException, TRUE) /\ UNCHANGED xpos
       ELSE IF ~SignatureOk(ReadAt(xbytes, 0, 4))
         THEN Return(ReturnedNone, FALSE) /\ xpos' = Min(4, Len(xbytes))
         ELSE /\ xpos' = Min(4, Len(xbytes))
              /\ xpc' = "header"
              /\ UNCHANGED <<xres, xexc>>
  /\ UNCHANGED <<xin, xbytes, xend, xid, xsize>>

\* version, reserved, channels, height, width, depth, colour mode: 22
\* bytes; the first unpack whose bytes are missing raises (the read of the
\* reserved bytes comes short only at the end of the file, where the next
\* unpack raises)
ReadHeader ==
  /\ xpc = "header"
  /\ IF xpos + 22 <= Len(xbytes)
       THEN /\ xpos' = xpos + 22
            /\ xpc' = "colormode"
            /\ UNCHANGED <<xres, xexc>>
       ELSE Return(OnException, TRUE) /\ UNCHANGED xpos
  /\ UNCHANGED <<xin, xbytes, xend, xid, xsize>>

\* the colour mode data is skipped
SkipColorMode ==
  /\ xpc = "colormode"
  /\ LET bytes == xbytes
     IN IF xpos + 4 <= Len(bytes)
          THEN /\ xpos' = Min(xpos + 4 + Unpack(ReadAt(bytes, xpos, 4)), Len(bytes))
               /\ xpc' = "resources"
               /\ UNCHANGED <<xres, xexc>>
          ELSE Return(OnException, TRUE) /\ UNCHANGED xpos
  /\ UNCHANGED <<xin, xbytes, xend, xid, xsize>>

\* resources_length and resources_end
ReadResourcesLength ==
  /\ xpc = "resources"
  /\ LET bytes == xbytes
     IN IF xpos + 4 <= Len(bytes)
          THEN /\ xpos' = xpos + 4
               /\ xend' = xpos + 4 + Unpack(ReadAt(bytes, xpos, 4))
               /\ xpc' = "loop"
               /\ UNCHANGED <<xres, xexc>>
          ELSE Return(OnException, TRUE) /\ UNCHANGED <<xpos, xend>>
  /\ UNCHANGED <<xin, xbytes, xid, xsize>>

\* the loop test and the signature of the next resource; the loop ends at
\* resources_end or at a signature that is not b'8BIM', and None is returned
LoopHead ==
  /\ xpc = "loop"
  /\ LET bytes == xbytes
     IN IF xpos < xend /\ ReadAt(bytes, xpos, 4) = Sig8BIM
          THEN /\ xpos' = xpos + 4
               /\ xpc' = "block"
               /\ UNCHANGED <<xres, xexc>>
          ELSE /\ Return(ReturnedNone, FALSE)
               /\ xpos' = IF xpos < xend THEN Min(xpos + 4, Len(bytes)) ELSE xpos
  /\ UNCHANGED <<xin, xbytes, xend, xid, xsize>>

\* resource id, Pascal name with its padding, data size
ReadBlockHeader ==
  /\ xpc = "block"
  /\ LET bytes == xbytes
     IN IF xpos + 3 <= Len(bytes)
          THEN LET name_length == bytes[xpos + 3]
                   afterName == Min(xpos + 3 + name_length, Len(bytes))
                   afterPad == IF (name_length + 1) % 2 # 0
                                 THEN Min(afterName + 1, Len(bytes))
                                 ELSE afterName
               IN IF afterPad + 4 <= Len(bytes)
                    THEN /\ xid' = Unpack(ReadAt(bytes, xpos, 2))
                         /\ xsize' = Unpack(ReadAt(bytes, afterPad, 4))
                         /\ xpos' = afterPad + 4
                         /\ xpc' = "data"
                         /\ UNCHANGED <<xres, xexc>>
                    ELSE /\ Return(OnException, TRUE)
                         /\ UNCHANGED <<xpos, xid, xsize>>
          ELSE Return(OnException, TRUE) /\ UNCHANGED <<xpos, xid, xsize>>
  /\ UNCHANGED <<xin, xbytes, xend>>

\* a skip that seeks back to the signature of the resource
ReadBlockData_Rewinds ==
  /\ xpc = "data"
  /\ LET bytes == xbytes
         Padded(p) == IF xsize % 2 # 0 THEN Min(p + 1, Len(bytes)) ELSE p
     IN IF xid \in {RawThumbId, JpegThumbId}
          THEN IF xid = JpegThumbId
                 THEN LET afterHeader == Min(xpos + ThumbHeaderLen, Len(bytes))
                          n == xsize - ThumbHeaderLen
                          jpeg_data == JpegData(bytes, xpos, xsize)
                      IN IF n < -1
                           THEN Return(OnException, TRUE) /\ UNCHANGED xpos
                           ELSE \E loaded \in DecodeOutcomes(jpeg_data) :
                                  IF loaded
                                    THEN /\ Return(Pixmap(jpeg_data), FALSE)
                                         /\ xpos' = afterHeader + Len(jpeg_data)
                                    ELSE /\ xpos' = Padded(afterHeader + Len(jpeg_data))
                                         /\ xpc' = "loop"
                                         /\ UNCHANGED <<xres, xexc>>
                 ELSE /\ xpos' = Padded(xpos)
                      /\ xpc' = "loop"
                      /\ UNCHANGED <<xres, xexc>>
          ELSE /\ xpos' = xpos - 12
               /\ xpc' = "loop"
               /\ UNCHANGED <<xres, xexc>>
  /\ UNCHANGED <<xin, xbytes, xend, xid, xsize>>

\* the data of the resource: a JPEG thumbnail is loaded and returned, the
\* data of a raw thumbnail is left unread, any other data is read over;
\* then the padding byte of an odd size
ReadBlockData ==
  /\ xpc = "data"
  /\ LET bytes == xbytes
         Padded(p) == IF xsize % 2 # 0 THEN Min(p + 1, Len(bytes)) ELSE p
     IN IF xid \in {RawThumbId, JpegThumbId}
          THEN IF xid = JpegThumbId
                 THEN LET afterHeader == Min(xpos + ThumbHeaderLen, Len(bytes))
                          n == xsize - ThumbHeaderLen
                          jpeg_data == JpegData(bytes, xpos, xsize)
                      IN IF n < -1
                           THEN Return(OnException, TRUE) /\ UNCHANGED xpos
                           ELSE \E loaded \in DecodeOutcomes(jpeg_data) :
                                  IF loaded
                                    THEN /\ Return(Pixmap(jpeg_data), FALSE)
                                         /\ xpos' = afterHeader + Len(jpeg_data)
                                    ELSE /\ xpos' = Padded(afterHeader + Len(jpeg_data))
                                         /\ xpc' = "loop"
                                         /\ UNCHANGED <<xres, xexc>>
                 ELSE /\ xpos' = Padded(xpos)
                      /\ xpc' = "loop"
                      /\ UNCHANGED <<xres, xexc>>
          ELSE /\ xpos' = Padded(Min(xpos + xsize, Len(bytes)))
               /\ xpc' = "loop"
               /\ UNCHANGED <<xres, xexc>>
  /\ UNCHANGED <<xin, xbytes, xend, xid, xsize>>

(* ------------------------ configuration loader ------------------------- *)
Nl(text) == text \o <<"\n">>

\* the lines a configuration file may hold
ConfigLines ==
  { <<"\n">>,
    <<" ", "\n">>,
    Nl(<<"#", " ", "my mockups">>),
    Nl(<<" ", "#">> \o UrlPsd),
    Nl(UrlPsd),
    <<" ">> \o UrlDriveFile \o <<" ", "\n">>,
    UrlDriveOpen,
    Nl(UrlOtherHost),
    Nl(UrlUpper),
    Nl(UrlQuery),
    Nl(UrlZip),
    Nl(UrlFolder),
    Nl(UrlFolderU),
    Nl(UrlFolderNoId) }

\* the file _create_cloud_config_template writes
ConfigTemplate ==
  << Nl(<<"#", " ", "Cloud Mockup Library Configuration">>),
     Nl(<<"#", " ", "Add one URL per line to load mockups from cloud storage">>),
     Nl(<<"#", " ">>),
     Nl(<<"#", " ", "Supported formats:">>),
     Nl(<<"#", " ", "- Direct URL: ">> \o Https \o <<"example.com", "/", "path",
          "/", "to", "/", "mockup", ".psd">>),
     Nl(<<"#", " ", "- Google Drive file: ">> \o Https \o <<"drive.google.com",
          "/", "file", "/", "d", "/", "FILE_ID", "/", "view">>),
     Nl(<<"#", " ", " ", " ", "(To get FILE_ID: Right-click file > Share > Copy link)">>),
     Nl(<<"#", " ", "- Google Drive folder: ">> \o Https \o <<"drive.google.com",
          "/", "drive", "/", "folders", "/", "FOLDER_ID">>),
     Nl(<<"#", " ", " ", " ", "(Automatically loads ALL .psd files from the folder)">>),
     Nl(<<"#">>),
     Nl(<<"#", " ", "Example:">>),
     Nl(<<"#", " ">> \o Https \o <<"drive.google.com", "/", "drive", "/",
          "folders", "/", "1TXJ2FNU-ntSF4hwxmorJA3hd9TblePcf">>),
     Nl(<<"#", " ">> \o Https \o <<"drive.google.com", "/", "file", "/", "d",
          "/", "1abc123def456", "/", "view">>),
     Nl(<<"#", " ">> \o Https \o <<"www.dropbox.com", "/", "s", "/", "abc123", "/",
          "mockup", ".psd", "?", "dl=1">>),
     Nl(<<"#", " ">> \o Https \o <<"example.com", "/", "mockups", "/", "design1",
          ".psd">>) >>

\* the folder test of _load_cloud_sources ("A or B and C")
IsFolderLink(line) ==
  \/ Contains(line, <<"drive.google.com", "/", "drive", "/", "folders">>)
  \/ /\ Contains(line, <<"drive.google.com", "/", "drive", "/", "u", "/">>)
     /\ Contains(line, <<"folders">>)

\* folder_url.split('/folders/')[-1].split('?')[0].split('/')[0], or the
\* empty string standing for None
FolderId(folder_url) ==
  IF Contains(folder_url, <<"/", "folders", "/">>)
    THEN LET parts == Split(folder_url, <<"/", "folders", "/">>)
         IN Split(Split(parts[Len(parts)], <<"?">>)[1], <<"/">>)[1]
    ELSE <<>>

get_files_from_gdrive_folder(folder_url) ==
  IF FolderId(folder_url) = <<>> THEN <<>> ELSE FolderGuidance(folder_url)

\* the list after one line of the file has been read
WithLine(list, raw) ==
  LET line == Strip(raw)
  IN IF line # <<>> /\ ~StartsWith(line, <<"#">>)
       THEN IF IsFolderLink(line)
              THEN list \o get_files_from_gdrive_folder(line)
              ELSE Append(list, line)
       ELSE list

cvarsButUrls == <<cacheDirExists, cacheFiles, cpc, idx, cloud_psds, returned,
                  fetchCount, resHist, cachedAtClear, calls>>

\* _load_cloud_sources up to the loop; without the file the template is
\* written (or writing it fails, which is printed) and the empty list
\* returned
LoadOpen ==
  /\ lpc = "init"
  /\ IF cfgExists
       THEN /\ lpc' = "reading"
            /\ lineNo' = 1
            /\ UNCHANGED <<cfgExists, cfgLines, cloud_urls>>
       ELSE /\ \E written \in BOOLEAN :
                 /\ cfgExists' = written
                 /\ cfgLines' = IF written THEN ConfigTemplate ELSE <<>>
            /\ cloud_urls' = urls
            /\ lpc' = "loaded"
            /\ UNCHANGED lineNo
  /\ UNCHANGED urls

\* one iteration of "for line in f"
ReadLine ==
  /\ lpc = "reading"
  /\ lineNo <= Len(cfgLines)
  /\ urls' = WithLine(urls, cfgLines[lineNo])
  /\ lineNo' = lineNo + 1
  /\ UNCHANGED <<cfgExists, cfgLines, lpc, cloud_urls>>

\* end of file: return urls, assigned to self.cloud_urls
LoadReturn ==
  /\ lpc = "reading"
  /\ lineNo > Len(cfgLines)
  /\ cloud_urls' = urls
  /\ lpc' = "loaded"
  /\ UNCHANGED <<cfgExists, cfgLines, lineNo, urls>>

(* ----------------------------- main window ----------------------------- *)
\* text inputs are "" or one chosen path, the template lists are kept by
\* their lengths; log, status line and progress bar are display only

\* a Worker thread: pc is its position inside run, left the templates it
\* will still hand to render, sig the signal that ended it, path the job states it went
\* through; handled and enabledAfter record the slot the signal reached
NewWorker(n) ==
  [pc |-> "preflight", left |-> n, sig |-> "none", handled |-> FALSE,
   enabledAfter |-> FALSE, path |-> <<"Idle", "Preflight">>]

\* the inputs are followed up to the start of the last job
Choosing == Len(workers) < MaxJobs

\* pick_art, the dialog closed with a file
pick_art ==
  /\ Choosing
  /\ art_path' = "art.png"
  /\ UNCHANGED <<run_btn, out_dir, selected_library_psds, psd_list, workers>>

\* pick_out, the dialog closed with a directory
pick_out ==
  /\ Choosing
  /\ out_dir' = "out"
  /\ UNCHANGED <<run_btn, art_path, selected_library_psds, psd_list, workers>>

\* pick_psds, the dialog closed with one file
pick_psds ==
  /\ Choosing
  /\ selected_library_psds + psd_list < MaxTemplates
  /\ psd_list' = psd_list + 1
  /\ UNCHANGED <<run_btn, art_path, out_dir, selected_library_psds, workers>>

\* toggle_library_selection: a thumbnail joins or leaves the selection
toggle_library_selection ==
  /\ Choosing
  /\ \/ /\ selected_library_psds + psd_list < MaxTemplates
        /\ selected_library_psds' = selected_library_psds + 1
     \/ /\ selected_library_psds > 0
        /\ selected_library_psds' = selected_library_psds - 1
  /\ UNCHANGED <<run_btn, art_path, out_dir, psd_list, workers>>

\* refresh_library as the window sees it: the library selection is cleared
\* and the thumbnails are loaded again (the cache side is SpecCatalog's)
refresh_library ==
  /\ Choosing
  /\ selected_library_psds' = 0
  /\ UNCHANGED <<run_btn, art_path, out_dir, psd_list, workers>>

\* reset_all
reset_all ==
  /\ art_path' = ""
  /\ out_dir' = ""
  /\ psd_list' = 0
  /\ selected_library_psds' = 0
  /\ run_btn' = TRUE
  /\ UNCHANGED workers

\* run_job, reached by a click on the enabled run button: without artwork,
\* templates or output directory it returns, else it disables the button
\* and starts a new Worker
run_job ==
  /\ run_btn
  /\ Len(workers) < MaxJobs
  /\ IF art_path = "" \/ selected_library_psds + psd_list = 0
        \/ out_dir = ""
       THEN UNCHANGED <<run_btn, workers>>
       ELSE /\ run_btn' = FALSE
            /\ workers' = Append(workers,
                                 NewWorker(selected_library_psds + psd_list))
  /\ UNCHANGED <<art_path, out_dir, selected_library_psds, psd_list>>

\* worker k: the probe failed, error is emitted and run returns
JobPreflightFail(k) ==
  /\ k \in DOMAIN workers
  /\ workers[k].pc = "preflight"
  /\ workers' = [workers EXCEPT ![k].pc = "returned", ![k].sig = "error",
                                ![k].left = 0,
                                ![k].path = Append(@, "Aborted")]
  /\ UNCHANGED <<run_btn, art_path, out_dir, selected_library_psds, psd_list>>

\* worker k: the probe succeeded
JobPreflightOk(k) ==
  /\ k \in DOMAIN workers
  /\ workers[k].pc = "preflight"
  /\ workers' = [workers EXCEPT ![k].pc = "loop",
                                ![k].path = Append(@, "Running")]
  /\ UNCHANGED <<run_btn, art_path, out_dir, selected_library_psds, psd_list>>

\* worker k: the next template goes to render
JobRenderInvoke(k) ==
  /\ k \in DOMAIN workers
  /\ workers[k].pc = "loop"
  /\ workers[k].left > 0
  /\ workers' = [workers EXCEPT ![k].pc = "render"]
  /\ UNCHANGED <<run_btn, art_path, out_dir, selected_library_psds, psd_list>>

\* worker k: render returned, or raised into the except branch; either way
\* the loop goes on
JobRenderEnds(k) ==
  /\ k \in DOMAIN workers
  /\ workers[k].pc = "render"
  /\ workers' = [workers EXCEPT ![k].pc = "loop", ![k].left = @ - 1]
  /\ UNCHANGED <<run_btn, art_path, out_dir, selected_library_psds, psd_list>>

\* worker k: the loop is exhausted, finished is emitted
JobFinish(k) ==
  /\ k \in DOMAIN workers
  /\ workers[k].pc = "loop"
  /\ workers[k].left = 0
  /\ workers' = [workers EXCEPT ![k].pc = "returned", ![k].sig = "finished",
                                ![k].path = Append(@, "Completed")]
  /\ UNCHANGED <<run_btn, art_path, out_dir, selected_library_psds, psd_list>>

\* an on_error that leaves the run button disabled
on_error_ButtonLeftDisabled(k) ==
  /\ k \in DOMAIN workers
  /\ workers[k].sig = "error"
  /\ ~workers[k].handled
  /\ workers' = [workers EXCEPT ![k].handled = TRUE,
                                ![k].enabledAfter = run_btn]
  /\ UNCHANGED <<run_btn, art_path, out_dir, selected_library_psds, psd_list>>

\* the event loop delivers the error signal of worker k to on_error
on_error(k) ==
  /\ k \in DOMAIN workers
  /\ workers[k].sig = "error"
  /\ ~workers[k].handled
  /\ run_btn' = TRUE
  /\ workers' = [workers EXCEPT ![k].handled = TRUE,
                                ![k].enabledAfter = run_btn']
  /\ UNCHANGED <<art_path, out_dir, selected_library_psds, psd_list>>

\* the event loop delivers the finished signal of worker k to on_finished
on_finished(k) ==
  /\ k \in DOMAIN workers
  /\ workers[k].sig = "finished"
  /\ ~workers[k].handled
  /\ run_btn' = TRUE
  /\ workers' = [workers EXCEPT ![k].handled = TRUE,
                                ![k].enabledAfter = run_btn']
  /\ UNCHANGED <<art_path, out_dir, selected_library_psds, psd_list>>

(* --------------------------- specifications ---------------------------- *)
\* the main window after MainWindow.__init__, and while nobody touches it
GuiInit ==
  /\ run_btn = TRUE
  /\ art_path = ""
  /\ out_dir = ""
  /\ selected_library_psds = 0
  /\ psd_list = 0
  /\ workers = <<>>

\* the worker as constructed by run_job, before start()
WorkerInit ==
  /\ pc = "idle"
  /\ psds \in Jobs
  /\ i = 0
  /\ out = <<"a", 0>>
  /\ outFiles \in SUBSET (PsdNames \X (0..MaxSuffix))
  /\ emitted = <<>>
  /\ renderCalls = <<>>
  /\ dispatchCalls = 0
  /\ ps_available = "unknown"
  /\ raised = {}

\* the library after MockupLibrary.__init__: _ensure_library_structure made
\* the cache directory unless makedirs failed; files of earlier runs persist
LibraryInit ==
  /\ cacheDirExists \in BOOLEAN
  /\ cacheFiles \in [CacheNames -> {"absent", "partial", "complete"}]
  /\ ~cacheDirExists => cacheFiles = NoFiles
  /\ cloud_urls \in UNION {[1..n -> Urls] : n \in 0..MaxUrls}
  /\ cpc = [c \in Threads |-> "idle"]
  /\ idx = [c \in Threads |-> 0]
  /\ cloud_psds = [c \in Threads |-> <<>>]
  /\ returned = [c \in Threads |-> <<>>]
  /\ fetchCount = [u \in Urls |-> 0]
  /\ resHist = [u \in Urls |-> <<>>]
  /\ cachedAtClear = [u \in Urls |-> "noclear"]
  /\ calls = 0

\* a library nobody uses while the worker runs
LibraryQuiet ==
  /\ cacheDirExists = TRUE
  /\ cacheFiles = NoFiles
  /\ cloud_urls = <<>>
  /\ cpc = [c \in Threads |-> "idle"]
  /\ idx = [c \in Threads |-> 0]
  /\ cloud_psds = [c \in Threads |-> <<>>]
  /\ returned = [c \in Threads |-> <<>>]
  /\ fetchCount = [u \in Urls |-> 0]
  /\ resHist = [u \in Urls |-> <<>>]
  /\ cachedAtClear = [u \in Urls |-> "noclear"]
  /\ calls = 0

\* no job while the library is exercised
WorkerQuiet ==
  /\ pc = "idle"
  /\ psds = <<"a">>
  /\ i = 0
  /\ out = <<"a", 0>>
  /\ outFiles = {}
  /\ emitted = <<>>
  /\ renderCalls = <<>>
  /\ dispatchCalls = 0
  /\ ps_available = "unknown"
  /\ raised = {}

\* MockupLibrary.__init__ before _load_cloud_sources: the configuration
\* file is there, with any lines, or is not
LoaderInit ==
  /\ cfgExists \in BOOLEAN
  /\ cfgLines \in UNION {[1..n -> ConfigLines] : n \in 0..MaxLines}
  /\ ~cfgExists => cfgLines = <<>>
  /\ lpc = "init"
  /\ lineNo = 0
  /\ urls = <<>>

\* a configuration nobody reads
LoaderQuiet ==
  /\ cfgExists = TRUE
  /\ cfgLines = <<>>
  /\ lpc = "loaded"
  /\ lineNo = 0
  /\ urls = <<>>

\* MainWindow.__init__ before the first catalog: the library holds a.psd
\* and any of the other files, the cache is empty or left complete by an
\* earlier run
CatalogInit ==
  /\ gpc = "start"
  /\ localFiles \in {S \in SUBSET LocalCandidates :
                       library_root \o Sep \o <<"a", ".psd">> \in S}
  /\ cacheFiles \in {NoFiles, [n \in CacheNames |-> "complete"]}
  /\ psd_files = <<>>
  /\ catalog = <<>>
  /\ produced = 0
  /\ prevCatalog = <<>>
  /\ callOut = <<>>
  /\ netFailed = FALSE
  /\ delMark = "no"

\* a catalog nobody asks for
CatalogQuiet ==
  /\ gpc = "idle"
  /\ localFiles = {}
  /\ psd_files = <<>>
  /\ catalog = <<>>
  /\ produced = 0
  /\ prevCatalog = <<>>
  /\ callOut = <<>>
  /\ netFailed = FALSE
  /\ delMark = "no"

\* the resource lists of the containers
BlockLists == UNION {[1..n -> BlockKinds] : n \in 0..MaxBlocks}

\* the call of extract_psd_thumbnail on a missing file, on a container of
\* up to MaxBlocks resources cut at any length, or on a whole container
\* with a wrong signature
ExtractInit ==
  /\ \E b \in BlockLists :
       \/ /\ b = <<>>
          /\ xin = [exists |-> FALSE, sigOk |-> TRUE, blocks |-> b, cut |-> 0]
       \/ \E c \in 0..Len(Container(b)) :
            xin = [exists |-> TRUE, sigOk |-> TRUE, blocks |-> b, cut |-> c]
       \/ xin = [exists |-> TRUE, sigOk |-> FALSE, blocks |-> b,
                 cut |-> Len(Container(b))]
  /\ xbytes = FileBytes(xin)
  /\ xpc = "open"
  /\ xpos = 0
  /\ xend = 0
  /\ xid = 0
  /\ xsize = 0
  /\ xres = NoResult
  /\ xexc = FALSE

\* no thumbnail is being read
ExtractQuiet ==
  /\ xin = [exists |-> FALSE, sigOk |-> TRUE, blocks |-> <<>>, cut |-> 0]
  /\ xbytes = <<>>
  /\ xpc = "done"
  /\ xpos = 0
  /\ xend = 0
  /\ xid = 0
  /\ xsize = 0
  /\ xres = ReturnedNone
  /\ xexc = FALSE

Init ==
  WorkerInit /\ LibraryQuiet /\ LoaderQuiet /\ CatalogQuiet /\ ExtractQuiet
  /\ GuiInit

Next ==
  \/ (Start /\ UNCHANGED notWorker)
  \/ (PreflightFail /\ UNCHANGED notWorker)
  \/ (PreflightOk /\ UNCHANGED notWorker)
  \/ (RenderInvoke /\ UNCHANGED notWorker)
  \/ (RenderReturn /\ UNCHANGED notWorker)
  \/ (RenderRaise /\ UNCHANGED notWorker)
  \/ (Finish /\ UNCHANGED notWorker)

Spec == Init /\ [][Next]_vars

InitCache ==
  WorkerQuiet /\ LibraryInit /\ LoaderQuiet /\ CatalogQuiet /\ ExtractQuiet
  /\ GuiInit

\* the GUI thread inside _get_cloud_mockups, or clearing the cache
NextCache ==
  \/ (CallGetCloud(1) /\ UNCHANGED notCache)
  \/ (CheckCache(1) /\ UNCHANGED notCache)
  \/ (UrlOpen(1) /\ UNCHANGED notCache)
  \/ (OpenDest(1) /\ UNCHANGED notCache)
  \/ (TransferDone(1) /\ UNCHANGED notCache)
  \/ (TransferFail(1) /\ UNCHANGED notCache)
  \/ (ReturnCloud(1) /\ UNCHANGED notCache)
  \/ (ClearCache /\ UNCHANGED notCache)

SpecCache == InitCache /\ [][NextCache]_vars

\* two threads inside _get_cloud_mockups, interleaved at every file and
\* network operation
NextConc ==
  \/ (\E c \in Threads : CallGetCloud(c) /\ UNCHANGED notCache)
  \/ (\E c \in Threads : CheckCache(c) /\ UNCHANGED notCache)
  \/ (\E c \in Threads : UrlOpen(c) /\ UNCHANGED notCache)
  \/ (\E c \in Threads : OpenDest(c) /\ UNCHANGED notCache)
  \/ (\E c \in Threads : TransferDone(c) /\ UNCHANGED notCache)
  \/ (\E c \in Threads : TransferFail(c) /\ UNCHANGED notCache)
  \/ (\E c \in Threads : ReturnCloud(c) /\ UNCHANGED notCache)

SpecConc == InitCache /\ [][NextConc]_vars

InitLoad ==
  WorkerQuiet /\ LibraryQuiet /\ LoaderInit /\ CatalogQuiet /\ ExtractQuiet
  /\ GuiInit

\* MockupLibrary.__init__ reading cloud_sources.txt
NextLoad ==
  \/ (LoadOpen /\ UNCHANGED <<pvars, cvarsButUrls, gvars, xvars, uvars>>)
  \/ (ReadLine /\ UNCHANGED <<pvars, cvarsButUrls, gvars, xvars, uvars>>)
  \/ (LoadReturn /\ UNCHANGED <<pvars, cvarsButUrls, gvars, xvars, uvars>>)

SpecLoad == InitLoad /\ [][NextLoad]_vars

InitCatalog ==
  WorkerQuiet /\ LibraryInit /\ LoaderQuiet /\ CatalogInit /\ ExtractQuiet
  /\ GuiInit

\* the GUI thread producing catalogs: at start-up, on refresh, after a
\* restart
NextCatalog ==
  \/ (ScanLocal /\ UNCHANGED <<cvars, notCatalog>>)
  \/ (CallGetCloud(1) /\ gpc = "scanned" /\ gpc' = "cloud"
        /\ UNCHANGED <<localFiles, psd_files, catalog, produced, prevCatalog,
                       callOut, netFailed, delMark>>
        /\ UNCHANGED notCatalog)
  \/ (CheckCache(1) /\ gpc = "cloud" /\ CloudStepNoted /\ UNCHANGED netFailed
        /\ UNCHANGED notCatalog)
  \/ (UrlOpen(1) /\ gpc = "cloud" /\ CloudStepNoted
        /\ netFailed' = (netFailed \/ cpc'[1] = "check")
        /\ UNCHANGED notCatalog)
  \/ (OpenDest(1) /\ gpc = "cloud" /\ CloudStepNoted /\ UNCHANGED netFailed
        /\ UNCHANGED notCatalog)
  \/ (TransferDone(1) /\ gpc = "cloud" /\ CloudStepNoted /\ UNCHANGED netFailed
        /\ UNCHANGED notCatalog)
  \/ (TransferFail(1) /\ gpc = "cloud" /\ CloudStepNoted /\ netFailed' = TRUE
        /\ UNCHANGED notCatalog)
  \/ (ReturnCloud(1) /\ gpc = "cloud" /\ CloudStepNoted /\ UNCHANGED netFailed
        /\ UNCHANGED notCatalog)
  \/ (SortReturn /\ UNCHANGED <<cvars, notCatalog>>)
  \/ (ClearCache /\ gpc = "idle" /\ calls + 2 <= MaxCalls /\ gpc' = "cleared"
        /\ UNCHANGED <<localFiles, psd_files, catalog, produced, prevCatalog,
                       callOut, netFailed, delMark>>
        /\ UNCHANGED notCatalog)
  \/ (DeleteCacheDir /\ UNCHANGED notCatalog)
  \/ (Restart /\ UNCHANGED notCatalog)

SpecCatalog == InitCatalog /\ [][NextCatalog]_vars

InitExtract ==
  WorkerQuiet /\ LibraryQuiet /\ LoaderQuiet /\ CatalogQuiet /\ ExtractInit
  /\ GuiInit

\* one call of extract_psd_thumbnail
NextExtract ==
  \/ (ReadSignature /\ UNCHANGED <<pvars, cvars, lvars, gvars, uvars>>)
  \/ (ReadHeader /\ UNCHANGED <<pvars, cvars, lvars, gvars, uvars>>)
  \/ (SkipColorMode /\ UNCHANGED <<pvars, cvars, lvars, gvars, uvars>>)
  \/ (ReadResourcesLength /\ UNCHANGED <<pvars, cvars, lvars, gvars, uvars>>)
  \/ (LoopHead /\ UNCHANGED <<pvars, cvars, lvars, gvars, uvars>>)
  \/ (ReadBlockHeader /\ UNCHANGED <<pvars, cvars, lvars, gvars, uvars>>)
  \/ (ReadBlockData /\ UNCHANGED <<pvars, cvars, lvars, gvars, uvars>>)

SpecExtract == InitExtract /\ [][NextExtract]_vars

\* the resources of the files the call is followed on to its return: an
\* ordinary one, one without data, an undersized JPEG thumbnail, a raw one
LiveBlockLists ==
  UNION {[1..n -> {"O1", "Z", "Jtiny", "R"}] : n \in 0..MaxBlocks}

\* MockupThumbnail.load_thumbnail calls extract_psd_thumbnail on a file
CallExtract ==
  /\ xpc = "idle"
  /\ \E b \in LiveBlockLists :
       \/ /\ b = <<>>
          /\ xin' = [exists |-> FALSE, sigOk |-> TRUE, blocks |-> b, cut |-> 0]
       \/ \E c \in 0..Len(Container(b)) :
            xin' = [exists |-> TRUE, sigOk |-> TRUE, blocks |-> b, cut |-> c]
       \/ xin' = [exists |-> TRUE, sigOk |-> FALSE, blocks |-> b,
                  cut |-> Len(Container(b))]
  /\ xbytes' = FileBytes(xin')
  /\ xpc' = "open"
  /\ UNCHANGED <<xpos, xend, xid, xsize, xres, xexc>>

\* a thumbnail widget that has not asked for its image yet
ExtractIdle ==
  /\ xin = [exists |-> FALSE, sigOk |-> TRUE, blocks |-> <<>>, cut |-> 0]
  /\ xbytes = <<>>
  /\ xpc = "idle"
  /\ xpos = 0
  /\ xend = 0
  /\ xid = 0
  /\ xsize = 0
  /\ xres = NoResult
  /\ xexc = FALSE

InitExtractLive ==
  WorkerQuiet /\ LibraryQuiet /\ LoaderQuiet /\ CatalogQuiet /\ ExtractIdle
  /\ GuiInit

\* the call from the widget to the return
NextExtractLive ==
  \/ (CallExtract /\ UNCHANGED <<pvars, cvars, lvars, gvars, uvars>>)
  \/ (ReadSignature /\ UNCHANGED <<pvars, cvars, lvars, gvars, uvars>>)
  \/ (ReadHeader /\ UNCHANGED <<pvars, cvars, lvars, gvars, uvars>>)
  \/ (SkipColorMode /\ UNCHANGED <<pvars, cvars, lvars, gvars, uvars>>)
  \/ (ReadResourcesLength /\ UNCHANGED <<pvars, cvars, lvars, gvars, uvars>>)
  \/ (LoopHead /\ UNCHANGED <<pvars, cvars, lvars, gvars, uvars>>)
  \/ (ReadBlockHeader /\ UNCHANGED <<pvars, cvars, lvars, gvars, uvars>>)
  \/ (ReadBlockData /\ UNCHANGED <<pvars, cvars, lvars, gvars, uvars>>)

\* the thread that runs the call keeps running until the call returns
SpecExtractLive ==
  InitExtractLive /\ [][NextExtractLive]_vars /\ WF_vars(NextExtractLive)

InitGui ==
  WorkerQuiet /\ LibraryQuiet /\ LoaderQuiet /\ CatalogQuiet /\ ExtractQuiet
  /\ GuiInit

\* a step of worker thread k
JobStep(k) ==
  \/ JobPreflightFail(k)
  \/ JobPreflightOk(k)
  \/ JobRenderInvoke(k)
  \/ JobRenderEnds(k)
  \/ JobFinish(k)

\* a queued signal of worker k reaches its slot
Slot(k) == on_error(k) \/ on_finished(k)

\* the user at the controls, the worker threads, the slots
NextGui ==
  \/ (pick_art /\ UNCHANGED notGui)
  \/ (pick_out /\ UNCHANGED notGui)
  \/ (pick_psds /\ UNCHANGED notGui)
  \/ (toggle_library_selection /\ UNCHANGED notGui)
  \/ (refresh_library /\ UNCHANGED notGui)
  \/ (reset_all /\ UNCHANGED notGui)
  \/ (run_job /\ UNCHANGED notGui)
  \/ (\E k \in 1..MaxJobs : JobPreflightFail(k) /\ UNCHANGED notGui)
  \/ (\E k \in 1..MaxJobs : JobPreflightOk(k) /\ UNCHANGED notGui)
  \/ (\E k \in 1..MaxJobs : JobRenderInvoke(k) /\ UNCHANGED notGui)
  \/ (\E k \in 1..MaxJobs : JobRenderEnds(k) /\ UNCHANGED notGui)
  \/ (\E k \in 1..MaxJobs : JobFinish(k) /\ UNCHANGED notGui)
  \/ (\E k \in 1..MaxJobs : on_error(k) /\ UNCHANGED notGui)
  \/ (\E k \in 1..MaxJobs : on_finished(k) /\ UNCHANGED notGui)

SpecGui == InitGui /\ [][NextGui]_vars

\* every started thread is scheduled and every render call ends; the event
\* loop of the GUI thread delivers every queued signal
SpecGuiLive ==
  /\ InitGui
  /\ [][NextGui]_vars
  /\ \A k \in 1..MaxJobs : WF_vars(JobStep(k) /\ UNCHANGED notGui)
  /\ \A k \in 1..MaxJobs : WF_vars(Slot(k) /\ UNCHANGED notGui)

(* ------------------------ render worker: claims ------------------------ *)
\* the signals of kind s, in emission order
Signals(s) == SelectSeq(emitted, LAMBDA e : e.sig = s)

\* the values carried by the progress signals, in emission order
ProgressValues == [k \in 1..Len(Signals("progress")) |-> Signals("progress")[k].n]

\* the log lines with message m, in emission order
LogLines(m) == SelectSeq(emitted, LAMBDA e : e.sig = "log" /\ e.msg = m)

\* the per-item events: the "Processing" line and the progress signal
ItemEvents ==
  SelectSeq(emitted, LAMBDA e : e.sig = "progress" \/ e.msg = "Processing")

\* C1: when the Dispatch probe at the head of run fails, the thread returns
\* at once: no render call, no per-item log line, no progress signal,
\* exactly one error signal and no finished signal.
C1_PreflightFailureAborts ==
  ps_available = "no" =>
    /\ pc = "returned"
    /\ renderCalls = <<>>
    /\ raised = {}
    /\ Len(Signals("progress")) = 0
    /\ Len(LogLines("Processing")) = 0
    /\ Len(LogLines("Error processing")) = 0
    /\ Len(Signals("error")) = 1
    /\ Len(Signals("finished")) = 0

C1_Witness ==
  /\ ps_available = "no"
  /\ pc = "returned"
  /\ Len(psds) >= 2
  /\ Len(Signals("error")) = 1

\* C2: after a successful probe render is called exactly once per template,
\* in list order, whichever earlier calls raised; a raise of call k is
\* logged once, for k, and the run still reaches every later template.
C2_EveryTemplateRendered ==
  ps_available = "yes" =>
    /\ Len(renderCalls) <= total
    /\ \A k \in DOMAIN renderCalls :
         renderCalls[k].idx = k /\ renderCalls[k].psd = psds[k]
    /\ pc = "returned" => Len(renderCalls) = total
    /\ raised \subseteq DOMAIN renderCalls
    /\ {LogLines("Error processing")[k].n :
          k \in DOMAIN LogLines("Error processing")} = raised
    /\ Len(LogLines("Error processing")) = Cardinality(raised)

C2_Witness ==
  /\ ps_available = "yes"
  /\ pc = "returned"
  /\ total >= 3
  /\ raised = {1, 2}
  /\ Len(renderCalls) = total

C4_ProgressMonotone ==
  /\ \A k \in DOMAIN ProgressValues : ProgressValues[k] \in 0..100
  /\ \A k \in 1..(Len(ProgressValues) - 1) :
       ProgressValues[k] <= ProgressValues[k + 1]
  /\ Len(ProgressValues) =
       IF pc = "render" THEN Len(renderCalls) - 1 ELSE Len(renderCalls)
  /\ (ps_available = "yes" /\ pc = "returned") =>
       /\ Len(ProgressValues) = total
       /\ ProgressValues[total] = 100

C4_Witness ==
  /\ ps_available = "yes"
  /\ pc = "returned"
  /\ total = 3
  /\ raised # {}
  /\ ProgressValues[3] = 100

\* C5: after a successful probe the finished signal is emitted exactly once,
\* as the last signal, right after the progress signal of the last template,
\* however many render calls raised; the error signal is never emitted.
C5_CompletedOnce ==
  ps_available = "yes" =>
    /\ Len(Signals("error")) = 0
    /\ Len(Signals("finished")) <= 1
    /\ (Len(Signals("finished")) = 1) <=> (pc = "returned")
    /\ pc = "returned" =>
         /\ emitted[Len(emitted)].sig = "finished"
         /\ emitted[Len(emitted) - 1].sig = "progress"
         /\ Len(ProgressValues) = total

C5_Witness ==
  /\ ps_available = "yes"
  /\ pc = "returned"
  /\ total >= 2
  /\ raised = 1..total
  /\ Len(Signals("finished")) = 1

\* C6: render calls follow the template list one at a time: call k is for
\* template k, at most one call is open, and the "Processing" line of
\* template k+1 comes after the progress signal of template k.
C6_RendersInListOrder ==
  /\ \A k \in DOMAIN renderCalls :
       renderCalls[k].idx = k /\ renderCalls[k].psd = psds[k]
  /\ Len(renderCalls) - Len(ProgressValues) = IF pc = "render" THEN 1 ELSE 0
  /\ \A j \in DOMAIN ItemEvents :
       IF j % 2 = 1
         THEN ItemEvents[j].msg = "Processing" /\ ItemEvents[j].n = (j + 1) \div 2
         ELSE ItemEvents[j].sig = "progress"

C6_Witness ==
  /\ pc = "returned"
  /\ total = 3
  /\ psds[1] # psds[2]
  /\ Len(renderCalls) = 3
  /\ Len(ItemEvents) = 6

(* ------------------------- cloud cache: claims ------------------------- *)
\* thread c resolves the URL it is at while that URL's cache file exists:
\* the path is appended and nothing is fetched or written
HitNoFetch(c) ==
  ( /\ cpc[c] = "check"
    /\ idx[c] <= Len(cloud_urls)
    /\ CacheFileExists(get_cached_filename(CurUrl(c)))
    /\ <<cpc[c], idx[c]>>' # <<cpc[c], idx[c]>> )
  => /\ fetchCount' = fetchCount
     /\ cacheFiles' = cacheFiles
     /\ cpc'[c] = "check"
     /\ idx'[c] = idx[c] + 1
     /\ cloud_psds'[c] =
          Append(cloud_psds[c], CachePath(get_cached_filename(CurUrl(c))))

\* of two successive resolutions of a URL the second is a cache hit
SecondIsHit ==
  \A u \in Urls : \A k \in 1..(Len(resHist[u]) - 1) : resHist[u][k + 1] = "hit"

\* the same, unless the first was a fetch that failed before the cache file
\* was created: then the second fetches again
SecondIsHitIfFileLeft ==
  \A u \in Urls : \A k \in 1..(Len(resHist[u]) - 1) :
    (resHist[u][k + 1] = "hit") <=> (resHist[u][k] # "failed")

\* C7 as stated: a URL whose cache file exists resolves to the cache path
\* without a fetch, and of two successive resolutions of a URL the second
\* is always a cache hit (one fetch in all).
C7_Original ==
  [][(\A c \in Threads : HitNoFetch(c)) /\ SecondIsHit']_vars

\* C7 amended: a URL whose cache file exists resolves to the cache path
\* without a fetch; of two successive resolutions the second is a cache hit
\* exactly when the first left a file at the cache path, and fetches again
\* when the first fetch failed before the file was created.
C7_CacheHitNoFetch ==
  [][(\A c \in Threads : HitNoFetch(c)) /\ SecondIsHitIfFileLeft']_vars

C7_Witness ==
  \E u \in Urls :
    /\ Len(resHist[u]) >= 2
    /\ resHist[u][1] = "fetched"
    /\ resHist[u][2] = "hit"
    /\ fetchCount[u] = 1

C9_ClearLeavesEmptyDir ==
  [][ClearCache =>
       /\ cacheDirExists'
       /\ cacheFiles' = NoFiles
       /\ ClearedDir(cacheDirExists') = cacheDirExists'
       /\ ClearedFiles(cacheDirExists', cacheFiles') = cacheFiles']_vars

\* C10: of the threads resolving one URL at most one has a fetch of it under
\* way, and at most one is writing its cache file.
C10_SingleFlight ==
  \A u \in Urls :
    /\ Cardinality({c \in Threads :
                      cpc[c] \in {"opened", "writing"} /\ CurUrl(c) = u}) <= 1
    /\ Cardinality({c \in Threads :
                      cpc[c] = "writing" /\ CurUrl(c) = u}) <= 1

(* ------------------------- output path: claims ------------------------ *)
\* what get_unique_filepath owes for template name and the files present
UniqueFor(name, path, files) ==
  /\ path \notin files
  /\ path[1] = name
  /\ IF <<name, 0>> \notin files
       THEN path = <<name, 0>>
       ELSE /\ path[2] >= 1
            /\ \A k \in 1..(path[2] - 1) : <<name, k>> \in files

\* C17: the path chosen for an output is the candidate itself when no file
\* has that name, else the name with the smallest suffix _k, k >= 1, that no
\* file has; the chosen path does not exist when it is returned, and
\* choosing it creates no file.
C17_SmallestFreeSuffix ==
  [][(pc = "loop" /\ pc' = "render")
       => (outFiles' = outFiles /\ UniqueFor(psds[i], out', outFiles'))]_vars

C17_Witness ==
  /\ pc = "render"
  /\ out = <<"a", 3>>
  /\ {<<"a", 0>>, <<"a", 1>>, <<"a", 2>>} \subseteq outFiles

(* ----------------------- configuration: claims ------------------------ *)
\* every URL of the model, and whatever the loader has put into a list
KnownUrls ==
  {UrlPsd, UrlDriveFile, UrlDriveOpen, UrlOtherHost, UrlUpper, UrlQuery, UrlZip}
    \cup {urls[k] : k \in DOMAIN urls}
    \cup {cloud_urls[k] : k \in DOMAIN cloud_urls}

\* C11: the cache file name is decided by the source URL: two different
\* URLs get different names, also when both normalise to one download
\* link, and every name ends in the .psd extension (in either case).
C11_KeyFromUrlAlone ==
  /\ \A u \in KnownUrls :
       EndsWith(Lower(get_cached_filename(u)), <<".psd">>)
  /\ Cardinality({get_cached_filename(u) : u \in KnownUrls})
       = Cardinality(KnownUrls)

C11_Witness ==
  /\ lpc = "loaded"
  /\ Len(cloud_urls) = 2
  /\ cloud_urls[1] # cloud_urls[2]
  /\ get_google_drive_direct_link(cloud_urls[1]) =
       get_google_drive_direct_link(cloud_urls[2])
  /\ get_cached_filename(cloud_urls[1]) # get_cached_filename(cloud_urls[2])

\* the stripped lines that are not empty, not comments and not folder links
RECURSIVE PlainUrls(_)
PlainUrls(lines) ==
  IF lines = <<>> THEN <<>>
  ELSE LET line == Strip(Head(lines))
       IN (IF line # <<>> /\ ~StartsWith(line, <<"#">>) /\ ~IsFolderLink(line)
             THEN <<line>> ELSE <<>>) \o PlainUrls(Tail(lines))

\* C12: the loaded URL list is exactly the non-empty, non-comment,
\* non-folder lines of the configuration file, in file order; a folder
\* link adds no entry.
C12_FolderLinksAddNothing ==
  lpc = "loaded" => cloud_urls = PlainUrls(cfgLines)

(* --------------------------- catalog: claims --------------------------- *)
Range(list) == {list[k] : k \in DOMAIN list}
Count(list, x) == Cardinality({k \in DOMAIN list : list[k] = x})

\* a catalog has been returned and nothing has been started since
CatalogReady == gpc = "idle" /\ produced > 0

\* positions of the running call at which url was resolved with success
Resolved(url) ==
  {k \in DOMAIN callOut : cloud_urls[k] = url /\ callOut[k] \in {"hit", "fetched"}}

\* C13: a returned catalog lists the cache path of a configured URL once
\* for every resolution of it that succeeded (hit or completed fetch) and
\* not at all when its fetch failed; every URL of the list has been
\* resolved, failures included, and every local template is listed.
C13_CatalogHasResolvedOnly ==
  CatalogReady =>
    /\ Len(callOut) = Len(cloud_urls)
    /\ \A u \in Urls :
         Count(catalog, CachePath(get_cached_filename(u))) =
           Cardinality(Resolved(u))
    /\ {f \in localFiles : Walked(f)} \subseteq Range(catalog)

C13_Witness ==
  /\ CatalogReady
  /\ Len(callOut) = 2
  /\ callOut[1] \in {"failed", "failed_partial"}
  /\ callOut[2] = "fetched"
  /\ cloud_urls[1] # cloud_urls[2]
  /\ CachePath(get_cached_filename(cloud_urls[1])) \notin Range(catalog)
  /\ CachePath(get_cached_filename(cloud_urls[2])) \in Range(catalog)
  /\ \E f \in localFiles : f \in Range(catalog)

\* C14: the local part of a returned catalog is exactly the .psd files
\* under the library root that are neither inside the cache directory nor
\* the configuration file.
C14_LocalPartIsAllButCache ==
  CatalogReady =>
    {f \in Range(catalog) : ~StartsWith(f, cache_dir \o Sep)} =
      {f \in localFiles \cup {ConfigFile} :
         /\ EndsWithPsd(FileOf(f))
         /\ f # ConfigFile
         /\ ~StartsWith(f, cache_dir \o Sep)}

\* C15: a returned catalog is in ascending path order and holds what the
\* walk and the cloud pass collected, each as often as collected.
C15_CatalogSorted ==
  CatalogReady =>
    /\ \A j, k \in DOMAIN catalog : j < k => ~PathLess(catalog[k], catalog[j])
    /\ Len(catalog) = Len(psd_files)
    /\ \A f \in Range(psd_files) : Count(catalog, f) = Count(psd_files, f)

C15_Witness ==
  /\ CatalogReady
  /\ Len(catalog) = 4
  /\ catalog # psd_files
  /\ \E f \in Range(catalog) : StartsWith(f, cache_dir \o Sep)
  /\ \E f \in Range(catalog) : ~StartsWith(f, cache_dir \o Sep)

\* C16: when the cache directory was deleted after a catalog that listed
\* every configured URL, and no request or transfer fails, the next catalog
\* equals that catalog and every configured URL has been fetched again.
C16_SameCatalogAfterCacheDeleted ==
  ( /\ CatalogReady
    /\ delMark = "during"
    /\ ~netFailed
    /\ \A k \in DOMAIN cloud_urls :
         CachePath(get_cached_filename(cloud_urls[k])) \in Range(prevCatalog) )
  => /\ catalog = prevCatalog
     /\ \A k \in DOMAIN cloud_urls :
          \E j \in DOMAIN callOut :
            cloud_urls[j] = cloud_urls[k] /\ callOut[j] = "fetched"

(* --------------------- thumbnail extractor: claims --------------------- *)
\* the call has ended
Extracted == xpc = "done"

\* the JPEG stream a JPEG thumbnail resource carries behind its header
Payload(kind) == IF kind = "J" THEN JpegA ELSE JpegB

\* a whole container with the right signature whose resources are
\* ordinary ones, decodable JPEG thumbnails and raw thumbnails
WellFormed(d) ==
  /\ d.exists
  /\ d.sigOk
  /\ d.cut = Len(Container(d.blocks))
  /\ \A k \in DOMAIN d.blocks :
       d.blocks[k] \in {"O0", "O1", "Z", "J", "Jodd", "R"}

JpegAt(d) == {k \in DOMAIN d.blocks : d.blocks[k] \in {"J", "Jodd"}}
RawAt(d) == {k \in DOMAIN d.blocks : d.blocks[k] = "R"}

\* C18: a file whose bytes do not start with the signature 8BPS, the empty
\* file and files shorter than four bytes included, makes the call return
\* None; nothing is raised.
C18_NoSignatureNoThumbnail ==
  (Extracted /\ xin.exists /\ ~StartsWith(FileBytes(xin), Sig8BPS))
    => (xres = ReturnedNone /\ ~xexc)

C18_Witness ==
  /\ Extracted
  /\ xin.exists
  /\ ~xin.sigOk
  /\ xin.blocks = <<"J">>
  /\ xres = ReturnedNone

\* C19: for a well-formed container with exactly one JPEG thumbnail
\* resource (1036) among resources that are no thumbnails the call returns
\* the image loaded from that resource's data behind its 28-byte header;
\* for a well-formed container whose only thumbnail resources are raw
\* (1033) it returns None.
C19_JpegPreviewReturned ==
  (Extracted /\ WellFormed(xin)) =>
    /\ (Cardinality(JpegAt(xin)) = 1 /\ RawAt(xin) = {})
         => \A k \in JpegAt(xin) : xres = Pixmap(Payload(xin.blocks[k]))
    /\ (JpegAt(xin) = {} /\ RawAt(xin) # {}) => xres = ReturnedNone

C19_Witness ==
  /\ Extracted
  /\ WellFormed(xin)
  /\ xin.blocks = <<"O1", "Jodd">>
  /\ xres = Pixmap(JpegB)

\* C20: the call never raises: whatever the file (missing, cut at any
\* length, with a wrong file or resource signature, with a thumbnail size
\* below the header length) it returns None, or the thumbnail of a JPEG
\* resource it had found.
C20_NeverRaises ==
  Extracted =>
    /\ xres.kind \in {"none", "pixmap"}
    /\ xres.kind = "pixmap" =>
         \E k \in DOMAIN xin.blocks :
           /\ xin.blocks[k] \in {"J", "Jodd"}
           /\ StartsWith(Payload(xin.blocks[k]), xres.data)

C20_Witness ==
  /\ Extracted
  /\ xin.exists
  /\ xin.blocks = <<"O1", "J">>
  /\ xin.cut = 43
  /\ xexc
  /\ xres = ReturnedNone

\* offset of the first resource, of resource k, and behind resource k
ResourcesStart == Len(Container(<<>>)) - 4
BlockStart(d, k) == ResourcesStart + Len(Blocks(SubSeq(d.blocks, 1, k - 1)))
BlockEnd(d, k) == BlockStart(d, k + 1)

\* the first thumbnail resources of a container
FirstOf(positions) == CHOOSE k \in positions : \A j \in positions : k <= j

\* C21: a raw thumbnail resource (1033) is read over like any resource
\* that is no JPEG thumbnail, so that a JPEG thumbnail resource behind it
\* is found and returned.
C21_RawPreviewSkipped ==
  ( /\ Extracted
    /\ WellFormed(xin)
    /\ JpegAt(xin) # {}
    /\ RawAt(xin) # {}
    /\ FirstOf(RawAt(xin)) < FirstOf(JpegAt(xin)) )
  => xres = Pixmap(Payload(xin.blocks[FirstOf(JpegAt(xin))]))

\* the JPEG thumbnail resources of a whole container, loadable or not
Jpeg1036At(d) == {k \in DOMAIN d.blocks : d.blocks[k] \in {"J", "Jodd", "Jbad"}}

\* the first 1036 resource is reached by the scan
FirstJpegReached(d) ==
  /\ d.exists
  /\ d.sigOk
  /\ d.cut = Len(Container(d.blocks))
  /\ Jpeg1036At(d) # {}
  /\ \A k \in 1..(FirstOf(Jpeg1036At(d)) - 1) : d.blocks[k] \in {"O0", "O1", "Z"}

\* C22: the first JPEG thumbnail resource the scan reaches decides the
\* result alone, its image when the data loads and None when it does not,
\* and nothing behind that resource is read.
C22_FirstMatchWins ==
  (Extracted /\ FirstJpegReached(xin)) =>
    LET k == FirstOf(Jpeg1036At(xin))
    IN /\ xres = IF xin.blocks[k] = "Jbad" THEN ReturnedNone
                 ELSE Pixmap(Payload(xin.blocks[k]))
       /\ xpos <= BlockEnd(xin, k)

\* C23: in a well-formed container every pass of the loop leaves the
\* position at the signature of the next resource (or at the end of the
\* resources): signature, id, padded name, size, padded data are consumed.
C23_BlockConsumedWhole ==
  (xpc = "loop" /\ WellFormed(xin)) =>
    xpos \in {BlockStart(xin, k) : k \in 1..(Len(xin.blocks) + 1)}

\* C30: every call returns, whatever the file: cut inside the resources so
\* that the declared length goes beyond the file, with a data size of 0,
\* with a JPEG thumbnail size below the header length.
C30_ExtractTerminates == (xpc = "open") ~> Extracted

C30_Witness ==
  /\ Extracted
  /\ xin.exists
  /\ xin.sigOk
  /\ xin.blocks = <<"Z", "Jtiny">>
  /\ xin.cut = BlockStart(xin, 2) + 2
  /\ xpos = xin.cut


(* ------------------- render worker: later claims ----------------------- *)
\* no output path is resolved and render is not called unless the probe
\* at the head of run has succeeded
NoItemBeforeProbe ==
  (pc \in {"loop", "render"} \/ renderCalls # <<>>) => ps_available = "yes"

\* C24: the availability of Photoshop is established exactly once per job,
\* before any per-item work (no path resolved, no render called before the
\* probe succeeded), and is not established again for an item: a job makes
\* no more than the one call of Dispatch
C24_ProbedOncePerJob ==
  /\ NoItemBeforeProbe
  /\ dispatchCalls <= 1
  /\ pc \in {"loop", "render", "returned"} => dispatchCalls = 1


\* the paths given to the templates of a batch are pairwise different
C26_Original ==
  \A j, k \in DOMAIN renderCalls :
    j # k => renderCalls[j].out # renderCalls[k].out

\* C26: within one batch a template is given a path that differs from the
\* path given to every earlier template whose file was written: a path
\* given before is given again only while no file has it, as after a render
\* of a template of the same base name that failed or wrote nothing
C26_DistinctFromWritten ==
  [][(pc = "loop" /\ pc' = "render")
       => \A j \in DOMAIN renderCalls :
            renderCalls[j].out \in outFiles => renderCalls[j].out # out']_vars

\* two templates of one base name, the first written: the second got the
\* suffixed name
C26_Witness ==
  /\ Len(renderCalls) >= 2
  /\ renderCalls[1].psd = renderCalls[2].psd
  /\ renderCalls[1].out \in outFiles
  /\ renderCalls[2].out = <<renderCalls[1].psd, renderCalls[1].out[2] + 1>>
  /\ 1 \notin raised


(* ---------------------- cloud cache: later claims ---------------------- *)
\* the step adds outcome o to the resolutions of url
NotedNow(url, o) ==
  /\ Len(resHist'[url]) = Len(resHist[url]) + 1
  /\ resHist'[url][Len(resHist'[url])] = o

Failures == {"failed", "failed_partial"}

\* C28: a fetch that fails, before or after it began to write, leaves no
\* file at the cache path of its URL, and a resolution that follows a
\* failed one is not a cache hit: a cache file is there only after a fetch
\* that succeeded
C28_FailedFetchLeavesNoFile ==
  [][\A u \in Urls :
       /\ (\E o \in Failures : NotedNow(u, o))
            => (~cacheDirExists' \/ cacheFiles'[get_cached_filename(u)] = "absent")
       /\ (NotedNow(u, "hit") /\ resHist[u] # <<>>)
            => resHist[u][Len(resHist[u])] \notin Failures]_vars


(* ------------------------ catalog: later claims ------------------------ *)
\* C29: a returned catalog lists no path twice, also when a URL stands on
\* more than one line of cloud_sources.txt
C29_NoPathTwice ==
  CatalogReady => \A p \in Range(catalog) : Count(catalog, p) = 1


(* ------------------------- main window: claims ------------------------- *)
\* worker k has been started and has not yet emitted finished or error
InFlight(k) == k \in DOMAIN workers /\ workers[k].sig = "none"

\* C27: at most one worker is running: whatever the user does (run, reset,
\* refresh, selections), no second job is started before the first has
\* emitted finished or error, so no two jobs are inside render together
C27_OneWorkerAtATime ==
  Cardinality({k \in 1..MaxJobs : InFlight(k)}) <= 1

JobPaths ==
  { <<"Idle", "Preflight", "Running", "Completed">>,
    <<"Idle", "Preflight", "Aborted">> }

\* worker k ended in one terminal state along one of the two paths, its
\* signal reached the slot, and the slot left the run button enabled
Settled(k) ==
  /\ k \in DOMAIN workers
  /\ workers[k].path \in JobPaths
  /\ workers[k].handled
  /\ workers[k].enabledAfter

\* C25: every render call ending, every started job reaches exactly one
\* terminal state, Completed or Aborted, along Idle, Preflight, Running,
\* Completed or Idle, Preflight, Aborted, and the run button is enabled
\* again after it
C25_JobEndsAndButtonReturns ==
  \A k \in 1..MaxJobs : (k \in DOMAIN workers) ~> Settled(k)

C25_Witness ==
  /\ Len(workers) = 2
  /\ Settled(1) /\ workers[1].path[Len(workers[1].path)] = "Aborted"
  /\ Settled(2) /\ workers[2].path[Len(workers[2].path)] = "Completed"
  /\ run_btn

====
